---- MODULE Spec2Model ----
(***************************************************************************)
(* Model of p4est_algorithms.c: the quadrant algebra (Morton-encoded       *)
(* quadrants of a 2-D refinement tree) and p4est_complete_region, which    *)
(* fills the gap between two quadrants with a work list of children.       *)
(*                                                                         *)
(* Quadrants are records [x, y, level, user_data].  The int32 coordinates  *)
(* are non-negative and below 2^P4EST_MAXLEVEL, so the C bit operations    *)
(* are modelled on naturals, bit by bit.                                   *)
(***************************************************************************)
EXTENDS Integers, Sequences, FiniteSets, TLC

\* Refinement depth.  The header that sets P4EST_MAXLEVEL is not part of the
\* sources; the library uses 30, the model a small depth so that every
\* quadrant of the domain can be enumerated.
P4EST_MAXLEVEL == 2

(***************************************************************************)
(* C integer operators on naturals.                                        *)
(***************************************************************************)
RECURSIVE Pow2(_)
Pow2(n) == IF n <= 0 THEN 1 ELSE 2 * Pow2(n - 1)

\* x << n and x >> n
Shl(x, n) == x * Pow2(n)
Shr(x, n) == x \div Pow2(n)

RECURSIVE BitAnd(_, _)
BitAnd(x, y) ==
  IF x = 0 \/ y = 0 THEN 0
  ELSE (IF x % 2 = 1 /\ y % 2 = 1 THEN 1 ELSE 0) + 2 * BitAnd(x \div 2, y \div 2)

RECURSIVE BitOr(_, _)
BitOr(x, y) ==
  IF x = 0 THEN y
  ELSE IF y = 0 THEN x
  ELSE (IF x % 2 = 1 \/ y % 2 = 1 THEN 1 ELSE 0) + 2 * BitOr(x \div 2, y \div 2)

RECURSIVE BitXor(_, _)
BitXor(x, y) ==
  IF x = 0 THEN y
  ELSE IF y = 0 THEN x
  ELSE (IF x % 2 # y % 2 THEN 1 ELSE 0) + 2 * BitXor(x \div 2, y \div 2)

\* x & ~m for non-negative x and m
BitAndNot(x, m) == x - BitAnd(x, m)

P4EST_MIN(x, y) == IF x < y THEN x ELSE y
P4EST_MAX(x, y) == IF x > y THEN x ELSE y

\* log_lookup_table[x], x in 0..255: -1 for 0, else the position of the
\* highest set bit
RECURSIVE log_lookup_table(_)
log_lookup_table(x) ==
  IF x = 0 THEN -1 ELSE IF x = 1 THEN 0 ELSE 1 + log_lookup_table(x \div 2)

P4EST_LOG2_8(x) == log_lookup_table(x)
P4EST_LOG2_16(x) == IF x > 255 THEN P4EST_LOG2_8(Shr(x, 8)) + 8 ELSE P4EST_LOG2_8(x)
P4EST_LOG2_32(x) == IF x > 65535 THEN P4EST_LOG2_16(Shr(x, 16)) + 16 ELSE P4EST_LOG2_16(x)

(***************************************************************************)
(* Quadrants.                                                              *)
(***************************************************************************)
\* a quadrant handed in by a caller; its user_data is the caller's business
Quadrant(x, y, level) == [x |-> x, y |-> y, level |-> level, user_data |-> "caller"]

p4est_quadrant_is_valid(q) ==
  /\ q.level >= 0 /\ q.level <= P4EST_MAXLEVEL
  /\ q.x >= 0 /\ q.x < Shl(1, P4EST_MAXLEVEL)
  /\ q.y >= 0 /\ q.y < Shl(1, P4EST_MAXLEVEL)
  /\ BitAnd(q.x, Shl(1, P4EST_MAXLEVEL - q.level) - 1) = 0
  /\ BitAnd(q.y, Shl(1, P4EST_MAXLEVEL - q.level) - 1) = 0

\* every record the validity predicate is asked about, and those it accepts
QuadrantRecords ==
  { Quadrant(x, y, l) : x \in 0..(Pow2(P4EST_MAXLEVEL) - 1),
                        y \in 0..(Pow2(P4EST_MAXLEVEL) - 1),
                        l \in 0..P4EST_MAXLEVEL }
ValidQuadrants == { q \in QuadrantRecords : p4est_quadrant_is_valid(q) }

\* the comparison without the tie-break on the level
p4est_quadrant_compare_nolevel(q1, q2) ==
  LET exclorx == BitXor(q1.x, q2.x)
      exclory == BitXor(q1.y, q2.y)
  IN  IF exclory = 0 /\ exclorx = 0 THEN 0
      ELSE IF P4EST_LOG2_32(exclory) >= P4EST_LOG2_32(exclorx) THEN q1.y - q2.y
      ELSE q1.x - q2.x

\* the comparison with x deciding when the highest differing bits of x and
\* of y are the same bit
p4est_quadrant_compare_xfirst(q1, q2) ==
  LET exclorx == BitXor(q1.x, q2.x)
      exclory == BitXor(q1.y, q2.y)
  IN  IF exclory = 0 /\ exclorx = 0 THEN q1.level - q2.level
      ELSE IF P4EST_LOG2_32(exclory) > P4EST_LOG2_32(exclorx) THEN q1.y - q2.y
      ELSE q1.x - q2.x

p4est_quadrant_compare(q1, q2) ==
  LET exclorx == BitXor(q1.x, q2.x)
      exclory == BitXor(q1.y, q2.y)
  IN  IF exclory = 0 /\ exclorx = 0 THEN q1.level - q2.level
      ELSE IF P4EST_LOG2_32(exclory) >= P4EST_LOG2_32(exclorx) THEN q1.y - q2.y
      ELSE q1.x - q2.x

\* the child id with the y bit forgotten
p4est_quadrant_child_id_xonly(q) ==
  IF BitAnd(q.x, Shl(1, P4EST_MAXLEVEL - q.level)) # 0 THEN 1 ELSE 0

p4est_quadrant_child_id(q) ==
  BitOr(BitOr(0, IF BitAnd(q.x, Shl(1, P4EST_MAXLEVEL - q.level)) # 0 THEN 1 ELSE 0),
        IF BitAnd(q.y, Shl(1, P4EST_MAXLEVEL - q.level)) # 0 THEN 2 ELSE 0)

p4est_quadrant_is_equal(q1, q2) ==
  q1.level = q2.level /\ q1.x = q2.x /\ q1.y = q2.y

p4est_quadrant_is_ancestor(q, r) ==
  IF q.level >= r.level THEN FALSE
  ELSE LET exclorx == Shr(BitXor(q.x, r.x), P4EST_MAXLEVEL - q.level)
           exclory == Shr(BitXor(q.y, r.y), P4EST_MAXLEVEL - q.level)
       IN  exclorx = 0 /\ exclory = 0

\* r of p4est_quadrant_parent (q, r); r keeps its own user_data
p4est_quadrant_parent(q) ==
  [q EXCEPT !.x = BitAndNot(q.x, Shl(1, P4EST_MAXLEVEL - q.level)),
            !.y = BitAndNot(q.y, Shl(1, P4EST_MAXLEVEL - q.level)),
            !.level = q.level - 1]

\* the children left on the level of q
p4est_quadrant_children_samelevel(q) ==
  LET c0 == [x |-> q.x, y |-> q.y, level |-> q.level, user_data |-> "unset"]
      c1 == [c0 EXCEPT !.x = BitOr(c0.x, Shl(1, P4EST_MAXLEVEL - c0.level))]
      c2 == [c0 EXCEPT !.y = BitOr(c0.y, Shl(1, P4EST_MAXLEVEL - c0.level))]
      c3 == [c0 EXCEPT !.x = c1.x, !.y = c2.y]
  IN  <<c0, c1, c2, c3>>

\* <<c0, c1, c2, c3>> of p4est_quadrant_children; the four cells come from
\* the pool and their user_data is not set
p4est_quadrant_children(q) ==
  LET c0 == [x |-> q.x, y |-> q.y, level |-> q.level + 1, user_data |-> "unset"]
      c1 == [c0 EXCEPT !.x = BitOr(c0.x, Shl(1, P4EST_MAXLEVEL - c0.level))]
      c2 == [c0 EXCEPT !.y = BitOr(c0.y, Shl(1, P4EST_MAXLEVEL - c0.level))]
      c3 == [c0 EXCEPT !.x = c1.x, !.y = c2.y]
  IN  <<c0, c1, c2, c3>>

\* the level taken from the differing bits alone
p4est_nearest_common_ancestor_nomin(q1, q2) ==
  LET exclorx == BitXor(q1.x, q2.x)
      exclory == BitXor(q1.y, q2.y)
      maxclor == BitOr(exclorx, exclory)
      maxlevel == P4EST_LOG2_32(maxclor) + 1
  IN  [x |-> BitAndNot(q1.x, Shl(1, maxlevel) - 1),
       y |-> BitAndNot(q1.y, Shl(1, maxlevel) - 1),
       level |-> P4EST_MAXLEVEL - maxlevel,
       user_data |-> "unset"]

\* the highest differing bit itself kept
p4est_nearest_common_ancestor_keepbit(q1, q2) ==
  LET exclorx == BitXor(q1.x, q2.x)
      exclory == BitXor(q1.y, q2.y)
      maxclor == BitOr(exclorx, exclory)
      maxlevel == P4EST_MAX(P4EST_LOG2_32(maxclor), 0)
  IN  [x |-> BitAndNot(q1.x, Shl(1, maxlevel) - 1),
       y |-> BitAndNot(q1.y, Shl(1, maxlevel) - 1),
       level |-> P4EST_MIN(P4EST_MAXLEVEL - maxlevel, P4EST_MIN(q1.level, q2.level)),
       user_data |-> "unset"]

p4est_nearest_common_ancestor(q1, q2) ==
  LET exclorx == BitXor(q1.x, q2.x)
      exclory == BitXor(q1.y, q2.y)
      maxclor == BitOr(exclorx, exclory)
      maxlevel == P4EST_LOG2_32(maxclor) + 1
  IN  [x |-> BitAndNot(q1.x, Shl(1, maxlevel) - 1),
       y |-> BitAndNot(q1.y, Shl(1, maxlevel) - 1),
       level |-> P4EST_MIN(P4EST_MAXLEVEL - maxlevel, P4EST_MIN(q1.level, q2.level)),
       user_data |-> "unset"]

\* the loop of p4est_quadrant_linear_id, from bit i up to level - 1
RECURSIVE linear_id_loop(_, _, _, _, _)
linear_id_loop(x, y, level, i, id) ==
  IF i >= level THEN id
  ELSE linear_id_loop(x, y, level, i + 1,
         BitOr(BitOr(id, Shl(BitAnd(x, Shl(1, i)), i)),
               Shl(BitAnd(y, Shl(1, i)), i + 1)))

p4est_quadrant_linear_id(quadrant, level) ==
  linear_id_loop(Shr(quadrant.x, P4EST_MAXLEVEL - level),
                 Shr(quadrant.y, P4EST_MAXLEVEL - level), level, 0, 0)

\* the loop with the y bits shifted down like the x bits
RECURSIVE set_morton_loop_yshift(_, _, _, _, _)
set_morton_loop_yshift(id, level, i, x, y) ==
  IF i >= level THEN <<x, y>>
  ELSE set_morton_loop_yshift(id, level, i + 1,
         BitOr(x, Shr(BitAnd(id, Shl(1, 2 * i)), i)),
         BitOr(y, Shr(BitAnd(id, Shl(1, 2 * i + 1)), i)))

\* the loop of p4est_quadrant_set_morton: <<x, y>> after bits i..level-1
RECURSIVE set_morton_loop(_, _, _, _, _)
set_morton_loop(id, level, i, x, y) ==
  IF i >= level THEN <<x, y>>
  ELSE set_morton_loop(id, level, i + 1,
         BitOr(x, Shr(BitAnd(id, Shl(1, 2 * i)), i)),
         BitOr(y, Shr(BitAnd(id, Shl(1, 2 * i + 1)), i + 1)))

p4est_quadrant_set_morton(quadrant, level, id) ==
  LET xy == set_morton_loop(id, level, 0, 0, 0)
  IN  [quadrant EXCEPT !.level = level,
                       !.x = Shl(xy[1], P4EST_MAXLEVEL - level),
                       !.y = Shl(xy[2], P4EST_MAXLEVEL - level)]

p4est_quadrant_is_next(q, r) ==
  IF p4est_quadrant_compare(q, r) >= 0 THEN FALSE
  ELSE LET mask == Shl(1, P4EST_MAXLEVEL - r.level) - Shl(1, P4EST_MAXLEVEL - q.level)
           minlevel == IF q.level > r.level THEN r.level ELSE q.level
       IN  IF q.level > r.level /\ (BitAnd(q.x, mask) # mask \/ BitAnd(q.y, mask) # mask)
           THEN FALSE
           ELSE p4est_quadrant_linear_id(q, minlevel) + 1
                  = p4est_quadrant_linear_id(r, minlevel)

(***************************************************************************)
(* The definitional (_D) variants, by iterated p4est_quadrant_parent.      *)
(* p4est_quadrant_parent asserts level > 0; a call that would break it is  *)
(* recorded in the field failed of the result, and the climb stops there.  *)
(***************************************************************************)
\* first stage of p4est_nearest_common_ancestor_D: s promoted to a level
RECURSIVE nearest_common_ancestor_D_promote(_, _)
nearest_common_ancestor_D_promote(s, level) ==
  IF s.level > level
  THEN nearest_common_ancestor_D_promote(p4est_quadrant_parent(s), level)
  ELSE s

\* second stage: both go through their parents until they are equal
RECURSIVE nearest_common_ancestor_D_climb(_, _)
nearest_common_ancestor_D_climb(s1, s2) ==
  IF p4est_quadrant_is_equal(s1, s2) THEN [s |-> s1, failed |-> {}]
  ELSE IF ~(s1.level > 0) \/ ~(s2.level > 0) THEN [s |-> s1, failed |-> {"parent"}]
  ELSE nearest_common_ancestor_D_climb(p4est_quadrant_parent(s1),
                                       p4est_quadrant_parent(s2))

\* r of p4est_nearest_common_ancestor_D (q1, q2, r), and the assertions of
\* p4est_quadrant_parent that failed on the way
p4est_nearest_common_ancestor_D(q1, q2) ==
  LET s1 == nearest_common_ancestor_D_promote(q1, q2.level)
      s2 == nearest_common_ancestor_D_promote(q2, s1.level)
      c == nearest_common_ancestor_D_climb(s1, s2)
  IN  [r |-> [x |-> c.s.x, y |-> c.s.y, level |-> c.s.level, user_data |-> "unset"],
       failed |-> c.failed]

\* without the early return on equal quadrants
p4est_quadrant_is_ancestor_D_noequal(q, r) ==
  LET s == p4est_nearest_common_ancestor_D(q, r)
  IN  [result |-> p4est_quadrant_is_equal(q, s.r), failed |-> s.failed]

p4est_quadrant_is_ancestor_D(q, r) ==
  IF p4est_quadrant_is_equal(q, r) THEN [result |-> FALSE, failed |-> {}]
  ELSE LET s == p4est_nearest_common_ancestor_D(q, r)
       IN  [result |-> p4est_quadrant_is_equal(q, s.r), failed |-> s.failed]

\* the climb without the test of the child id
RECURSIVE is_next_D_loop_nochildid(_, _)
is_next_D_loop_nochildid(a1, b1) ==
  IF a1.level > b1.level
  THEN is_next_D_loop_nochildid(p4est_quadrant_parent(a1), b1)
  ELSE [returned |-> FALSE, a |-> a1]

\* the while loop of p4est_quadrant_is_next_D on its locals a and b:
\* returned is TRUE when the loop left the function with 0
RECURSIVE is_next_D_loop(_, _)
is_next_D_loop(a1, b1) ==
  IF a1.level > b1.level
  THEN IF p4est_quadrant_child_id(a1) # 3 THEN [returned |-> TRUE, a |-> a1]
       ELSE is_next_D_loop(p4est_quadrant_parent(a1), b1)
  ELSE [returned |-> FALSE, a |-> a1]

p4est_quadrant_is_next_D(q, r) ==
  IF p4est_quadrant_compare(q, r) >= 0 THEN FALSE
  ELSE LET l == is_next_D_loop(q, r)
       IN  IF l.returned THEN FALSE
           ELSE p4est_quadrant_linear_id(l.a, l.a.level) + 1
                  = p4est_quadrant_linear_id(r, l.a.level)

(***************************************************************************)
(* Storage primitives (p4est_memory.h): only what the algorithm observes,  *)
(* the live count of a pool, the order of a list, the cells of an array.   *)
(***************************************************************************)
p4est_mempool_alloc(mempool) == [mempool EXCEPT !.elem_count = @ + 1]
p4est_mempool_free(mempool) == [mempool EXCEPT !.elem_count = @ - 1]

p4est_list_append(list, data) == Append(list, data)
p4est_list_prepend(list, data) == <<data>> \o list
\* p4est_list_pop: the data of the first link, and the list without it
p4est_list_first(list) == Head(list)
p4est_list_pop(list) == Tail(list)

\* a cell of an array that was grown and not yet written
UnwrittenCell == [x |-> 0, y |-> 0, level |-> 0, user_data |-> "unset"]
p4est_array_resize(array, new_count) ==
  IF new_count <= Len(array) THEN SubSeq(array, 1, new_count)
  ELSE array \o [i \in 1..(new_count - Len(array)) |-> UnwrittenCell]
\* *p4est_array_index (array, index) = elem, index 0-based
p4est_array_store(array, index, elem) == [array EXCEPT ![index + 1] = elem]

\* the mesh handle as its constructor leaves it: a user-data pool exists
\* exactly when the per-quadrant payload has a size
p4est_new(data_size, quadrants_live, data_live) ==
  [data_size |-> data_size,
   quadrant_pool |-> [elem_count |-> quadrants_live],
   user_data_pool |-> IF data_size > 0
                      THEN [is_null |-> FALSE, elem_count |-> data_live]
                      ELSE [is_null |-> TRUE, elem_count |-> 0]]

(***************************************************************************)
(* Tree predicates.                                                        *)
(***************************************************************************)
p4est_tree_is_sorted(t) ==
  \/ Len(t.quadrants) <= 1
  \/ \A i \in 1..(Len(t.quadrants) - 1) :
       ~(p4est_quadrant_compare(t.quadrants[i], t.quadrants[i + 1]) >= 0)

p4est_tree_is_complete(t) ==
  \/ Len(t.quadrants) <= 1
  \/ \A i \in 1..(Len(t.quadrants) - 1) :
       p4est_quadrant_is_next(t.quadrants[i], t.quadrants[i + 1])

\* the sibling test without the comparison of the levels
p4est_quadrant_is_sibling_nolevel(q1, q2) ==
  LET exclorx == BitXor(q1.x, q2.x)
      exclory == BitXor(q1.y, q2.y)
  IN  IF exclorx = 0 /\ exclory = 0 THEN FALSE
      ELSE /\ BitAndNot(exclorx, Shl(1, P4EST_MAXLEVEL - q1.level)) = 0
           /\ BitAndNot(exclory, Shl(1, P4EST_MAXLEVEL - q1.level)) = 0

p4est_quadrant_is_sibling(q1, q2) ==
  LET exclorx == BitXor(q1.x, q2.x)
      exclory == BitXor(q1.y, q2.y)
  IN  IF exclorx = 0 /\ exclory = 0 THEN FALSE
      ELSE /\ q1.level = q2.level
           /\ BitAndNot(exclorx, Shl(1, P4EST_MAXLEVEL - q1.level)) = 0
           /\ BitAndNot(exclory, Shl(1, P4EST_MAXLEVEL - q1.level)) = 0

p4est_quadrant_is_parent(q, r) ==
  /\ q.level + 1 = r.level
  /\ q.x = BitAndNot(r.x, Shl(1, P4EST_MAXLEVEL - r.level))
  /\ q.y = BitAndNot(r.y, Shl(1, P4EST_MAXLEVEL - r.level))

\* the relation code p4est_tree_print writes for q2 after its predecessor
\* q1: a letter, and the child id of q2 where one is written
tree_print_relation(q1, q2) ==
  LET childid == p4est_quadrant_child_id(q2)
      comp == p4est_quadrant_compare(q1, q2)
  IN  IF comp > 0 THEN [letter |-> "R"]
      ELSE IF comp = 0 THEN [letter |-> "I"]
      ELSE IF p4est_quadrant_is_sibling(q1, q2) THEN [letter |-> "S", k |-> childid]
      ELSE IF p4est_quadrant_is_parent(q1, q2) THEN [letter |-> "C", k |-> childid]
      ELSE IF p4est_quadrant_is_ancestor(q1, q2) THEN [letter |-> "D"]
      ELSE IF p4est_quadrant_is_next(q1, q2) THEN [letter |-> "N", k |-> childid]
      ELSE [letter |-> "Q", k |-> childid]

\* the lines p4est_tree_print writes to nout, one for each quadrant: x, y,
\* level and the relation codes written on the line; nothing if nout is NULL
p4est_tree_print(t, nout_is_null) ==
  IF nout_is_null THEN <<>>
  ELSE [j \in 1..Len(t.quadrants) |->
          LET q2 == t.quadrants[j]
          IN  [x |-> q2.x, y |-> q2.y, level |-> q2.level,
               codes |-> IF j > 1
                         THEN <<tree_print_relation(t.quadrants[j - 1], q2)>>
                         ELSE <<[letter |-> "Q", k |-> p4est_quadrant_child_id(q2)]>>]]

(***************************************************************************)
(* p4est_complete_region as a state machine: Enter is the code up to the   *)
(* work-list loop, Emit / Refine / Discard are one loop iteration each     *)
(* (by the branch taken), Finish is the code after the loop.               *)
(***************************************************************************)
VARIABLES
  pc,                 \* "entry", "loop", "done" ("idle": no call in progress)
  a, b,               \* copies of *q1 and *q2
  include_q1, include_q2,
  init_fn,            \* TRUE: an initializer was passed, FALSE: NULL
  p4est,              \* data_size, quadrant_pool, user_data_pool
  tree,               \* R: quadrants, quadrants_per_level, maxlevel
  W,                  \* the work list, front first
  num_quadrants, maxlevel,
  quadrant_pool_size, data_pool_size,
  init_calls,         \* the quadrants init_fn was invoked on, in order
  failed,             \* the assertions that failed so far
  args, ret           \* a call of one of the pure functions and its result

crvars == <<pc, a, b, include_q1, include_q2, init_fn, p4est, tree, W,
            num_quadrants, maxlevel, quadrant_pool_size, data_pool_size,
            init_calls, failed>>

\* p4est_connectivity_read: its locals, its result and the file it reads
VARIABLES
  rpc,                \* "entry", "lines", "returned", "aborted", "undefined"
                      \* ("idle": no call in progress, "print": before the print)
  section, section_lines_read,
  set_num_trees, set_num_vertices,
  num_trees, num_vertices,
  connectivity,       \* *connectivity, the caller's pointer
  retval,             \* the value returned, -1 before the return
  message,            \* what was written to stderr, "" if nothing
  file,               \* the lines of the file not read yet
  printed             \* the connectivity the file was printed from

rdvars == <<rpc, section, section_lines_read, set_num_trees, set_num_vertices,
            num_trees, num_vertices, connectivity, retval, message, file, printed>>

vars == <<pc, a, b, include_q1, include_q2, init_fn, p4est, tree, W,
          num_quadrants, maxlevel, quadrant_pool_size, data_pool_size,
          init_calls, failed, args, ret,
          rpc, section, section_lines_read, set_num_trees, set_num_vertices,
          num_trees, num_vertices, connectivity, retval, message, file, printed>>

\* a connectivity pointer that is NULL
NullConnectivity == [is_null |-> TRUE]

\* the locals of p4est_connectivity_read as their declarations leave them
ReaderLocals ==
  /\ section = "NONE"
  /\ section_lines_read = 0
  /\ set_num_trees = FALSE
  /\ set_num_vertices = FALSE
  /\ num_trees = 0
  /\ num_vertices = 0
  /\ retval = -1
  /\ message = ""

\* no call of p4est_connectivity_read in progress
ReaderIdle ==
  /\ rpc = "idle"
  /\ ReaderLocals
  /\ connectivity = NullConnectivity
  /\ file = <<>>
  /\ printed = NullConnectivity

NoCall == [op |-> "none"]

\* the meshes a call is made on
Meshes == { p4est_new(0, 0, 0), p4est_new(8, 2, 5) }

EmptyTree ==
  [quadrants |-> <<>>,
   quadrants_per_level |-> [l \in 0..P4EST_MAXLEVEL |-> 0],
   maxlevel |-> 0]

\* user data never taken from the pool
p4est_quadrant_init_data_noalloc(p, quad, fn) ==
  [p4est |-> p, quad |-> [quad EXCEPT !.user_data = "NULL"], called |-> fn]

\* p4est_quadrant_init_data: the mesh and the quadrant afterwards, and
\* whether init_fn ran
p4est_quadrant_init_data(p, quad, fn) ==
  [p4est |-> IF p.data_size > 0
             THEN [p EXCEPT !.user_data_pool = p4est_mempool_alloc(@)]
             ELSE p,
   quad |-> [quad EXCEPT !.user_data = IF p.data_size > 0 THEN "cell" ELSE "NULL"],
   called |-> fn]

\* the append that leaves the per-level counter alone
AppendQuadrant_nocount(t, n, q) ==
  [t EXCEPT !.quadrants = p4est_array_store(p4est_array_resize(@, n + 1), n, q)]

\* R <- R + q (lines 597-602, 632-638, 663-668) without the user data
AppendQuadrant(t, n, q) ==
  [t EXCEPT !.quadrants = p4est_array_store(p4est_array_resize(@, n + 1), n, q),
            !.quadrants_per_level[q.level] = @ + 1]

\* W <- the four children of q, taken from the quadrant pool
Alloc4(p) ==
  [p EXCEPT !.quadrant_pool =
     p4est_mempool_alloc(p4est_mempool_alloc(p4est_mempool_alloc(p4est_mempool_alloc(@))))]

ChildrenAssert(q) ==
  IF p4est_quadrant_is_valid(q) /\ q.level < P4EST_MAXLEVEL THEN {} ELSE {"children"}

Init ==
  /\ pc = "entry"
  /\ a \in ValidQuadrants
  /\ b \in ValidQuadrants
  /\ p4est_quadrant_compare(a, b) < 0
  /\ include_q1 \in BOOLEAN
  /\ include_q2 \in BOOLEAN
  /\ init_fn \in BOOLEAN
  /\ p4est \in Meshes
  /\ tree = EmptyTree
  /\ W = <<>>
  /\ num_quadrants = 0
  /\ maxlevel = 0
  /\ quadrant_pool_size = -1
  /\ data_pool_size = -1
  /\ init_calls = <<>>
  /\ failed = {}
  /\ args = NoCall
  /\ ret = NoCall
  /\ ReaderIdle

Enter ==
  /\ pc = "entry"
  /\ quadrant_pool_size' = p4est.quadrant_pool.elem_count
  /\ data_pool_size' = IF ~p4est.user_data_pool.is_null
                       THEN p4est.user_data_pool.elem_count ELSE data_pool_size
  /\ IF include_q1
     THEN /\ tree' = AppendQuadrant(tree, 0, a)
          /\ maxlevel' = P4EST_MAX(a.level, maxlevel)
          /\ num_quadrants' = num_quadrants + 1
     ELSE UNCHANGED <<tree, maxlevel, num_quadrants>>
  /\ LET Afinest == p4est_nearest_common_ancestor(a, b)
         c == p4est_quadrant_children(Afinest)
     IN  /\ p4est' = Alloc4(p4est)
         /\ W' = p4est_list_append(p4est_list_append(p4est_list_append(
                   p4est_list_append(W, c[1]), c[2]), c[3]), c[4])
         /\ failed' = failed \cup ChildrenAssert(Afinest)
  /\ pc' = "loop"
  /\ UNCHANGED <<a, b, include_q1, include_q2, init_fn, init_calls, args, ret, rdvars>>

\* the first condition without the test for an ancestor of b
IsBetween_noancestor(w) ==
  /\ p4est_quadrant_compare(a, w) < 0
  /\ p4est_quadrant_compare(w, b) < 0

\* the second condition taking a and b themselves for ancestors too
IsAncestorOfEnd_orequal(w) ==
  \/ p4est_quadrant_is_ancestor(w, a) \/ p4est_quadrant_is_equal(w, a)
  \/ p4est_quadrant_is_ancestor(w, b) \/ p4est_quadrant_is_equal(w, b)

\* the second condition asking for the ancestors of a only
IsAncestorOfEnd_onlya(w) == p4est_quadrant_is_ancestor(w, a)

\* the two loop conditions on the popped quadrant w (lines 627-629, 641-642)
IsBetween(w) ==
  /\ p4est_quadrant_compare(a, w) < 0
  /\ p4est_quadrant_compare(w, b) < 0
  /\ ~p4est_quadrant_is_ancestor(w, b)
IsAncestorOfEnd(w) ==
  p4est_quadrant_is_ancestor(w, a) \/ p4est_quadrant_is_ancestor(w, b)

Emit ==
  /\ pc = "loop"
  /\ Len(W) > 0
  /\ LET w == p4est_list_first(W)
         level == w.level
         d == p4est_quadrant_init_data(p4est, w, init_fn)
     IN  /\ IsBetween(w)
         /\ tree' = AppendQuadrant(tree, num_quadrants, d.quad)
         /\ init_calls' = IF d.called THEN Append(init_calls, d.quad) ELSE init_calls
         /\ maxlevel' = P4EST_MAX(level, maxlevel)
         /\ num_quadrants' = num_quadrants + 1
         /\ p4est' = [d.p4est EXCEPT !.quadrant_pool = p4est_mempool_free(@)]
  /\ W' = p4est_list_pop(W)
  /\ UNCHANGED <<pc, a, b, include_q1, include_q2, init_fn, quadrant_pool_size,
                 data_pool_size, failed, args, ret, rdvars>>

\* the children put behind the work list instead of in front of it
Refine_append ==
  /\ pc = "loop"
  /\ Len(W) > 0
  /\ LET w == p4est_list_first(W)
         c == p4est_quadrant_children(w)
     IN  /\ ~IsBetween(w)
         /\ IsAncestorOfEnd(w)
         /\ p4est' = [Alloc4(p4est) EXCEPT !.quadrant_pool = p4est_mempool_free(@)]
         /\ W' = p4est_list_append(p4est_list_append(p4est_list_append(
                   p4est_list_append(p4est_list_pop(W), c[1]), c[2]), c[3]), c[4])
         /\ failed' = failed \cup ChildrenAssert(w)
  /\ UNCHANGED <<pc, a, b, include_q1, include_q2, init_fn, tree, num_quadrants,
                 maxlevel, quadrant_pool_size, data_pool_size, init_calls, args, ret, rdvars>>

\* the children prepended in the order c0, c1, c2, c3, which leaves c3 in front
Refine_forward ==
  /\ pc = "loop"
  /\ Len(W) > 0
  /\ LET w == p4est_list_first(W)
         c == p4est_quadrant_children(w)
     IN  /\ ~IsBetween(w)
         /\ IsAncestorOfEnd(w)
         /\ p4est' = [Alloc4(p4est) EXCEPT !.quadrant_pool = p4est_mempool_free(@)]
         /\ W' = p4est_list_prepend(p4est_list_prepend(p4est_list_prepend(
                   p4est_list_prepend(p4est_list_pop(W), c[1]), c[2]), c[3]), c[4])
         /\ failed' = failed \cup ChildrenAssert(w)
  /\ UNCHANGED <<pc, a, b, include_q1, include_q2, init_fn, tree, num_quadrants,
                 maxlevel, quadrant_pool_size, data_pool_size, init_calls, args, ret, rdvars>>

Refine ==
  /\ pc = "loop"
  /\ Len(W) > 0
  /\ LET w == p4est_list_first(W)
         c == p4est_quadrant_children(w)
     IN  /\ ~IsBetween(w)
         /\ IsAncestorOfEnd(w)
         /\ p4est' = [Alloc4(p4est) EXCEPT !.quadrant_pool = p4est_mempool_free(@)]
         /\ W' = p4est_list_prepend(p4est_list_prepend(p4est_list_prepend(
                   p4est_list_prepend(p4est_list_pop(W), c[4]), c[3]), c[2]), c[1])
         /\ failed' = failed \cup ChildrenAssert(w)
  /\ UNCHANGED <<pc, a, b, include_q1, include_q2, init_fn, tree, num_quadrants,
                 maxlevel, quadrant_pool_size, data_pool_size, init_calls, args, ret, rdvars>>

\* a discarded quadrant not given back to the pool
Discard_nofree ==
  /\ pc = "loop"
  /\ Len(W) > 0
  /\ LET w == p4est_list_first(W)
     IN  /\ ~IsBetween(w)
         /\ ~IsAncestorOfEnd(w)
  /\ W' = p4est_list_pop(W)
  /\ UNCHANGED <<pc, a, b, include_q1, include_q2, init_fn, p4est, tree, num_quadrants,
                 maxlevel, quadrant_pool_size, data_pool_size, init_calls, failed,
                 args, ret, rdvars>>

Discard ==
  /\ pc = "loop"
  /\ Len(W) > 0
  /\ LET w == p4est_list_first(W)
     IN  /\ ~IsBetween(w)
         /\ ~IsAncestorOfEnd(w)
         /\ p4est' = [p4est EXCEPT !.quadrant_pool = p4est_mempool_free(@)]
  /\ W' = p4est_list_pop(W)
  /\ UNCHANGED <<pc, a, b, include_q1, include_q2, init_fn, tree, num_quadrants,
                 maxlevel, quadrant_pool_size, data_pool_size, init_calls, failed,
                 args, ret, rdvars>>

\* the assertions of lines 674-684 that do not hold of the final state
ExitAsserts(t, p, n) ==
  (IF Len(W) = 0 THEN {} ELSE {"W_empty"})
  \cup (IF p4est_tree_is_complete(t) THEN {} ELSE {"is_complete"})
  \cup (IF quadrant_pool_size = p.quadrant_pool.elem_count THEN {} ELSE {"quadrant_pool"})
  \cup (IF n = Len(t.quadrants) THEN {} ELSE {"num_quadrants"})
  \cup (IF p.user_data_pool.is_null
           \/ data_pool_size + Len(t.quadrants)
                = p.user_data_pool.elem_count + (IF include_q1 THEN 1 ELSE 0)
                  + (IF include_q2 THEN 1 ELSE 0)
        THEN {} ELSE {"data_pool"})

Finish ==
  /\ pc = "loop"
  /\ ~(Len(W) > 0)
  /\ LET t1 == IF include_q2 THEN AppendQuadrant(tree, num_quadrants, b) ELSE tree
         m1 == IF include_q2 THEN P4EST_MAX(b.level, maxlevel) ELSE maxlevel
         n1 == IF include_q2 THEN num_quadrants + 1 ELSE num_quadrants
         t2 == [t1 EXCEPT !.maxlevel = m1]
     IN  /\ tree' = t2
         /\ maxlevel' = m1
         /\ num_quadrants' = n1
         /\ failed' = failed \cup ExitAsserts(t2, p4est, n1)
  /\ pc' = "done"
  /\ UNCHANGED <<a, b, include_q1, include_q2, init_fn, p4est, W,
                 quadrant_pool_size, data_pool_size, init_calls, args, ret, rdvars>>

Next == Enter \/ Emit \/ Refine \/ Discard \/ Finish

Spec == Init /\ [][Next]_vars

(***************************************************************************)
(* Calls of the quadrant functions on every pair of valid quadrants.       *)
(* args is the pair the caller holds; each action is one call sequence,    *)
(* with its results in ret.                                                *)
(***************************************************************************)
InitQuadrant ==
  /\ pc = "idle"
  /\ a = Quadrant(0, 0, 0)
  /\ b = Quadrant(0, 0, 0)
  /\ include_q1 = FALSE
  /\ include_q2 = FALSE
  /\ init_fn = FALSE
  /\ p4est = p4est_new(0, 0, 0)
  /\ tree = EmptyTree
  /\ W = <<>>
  /\ num_quadrants = 0
  /\ maxlevel = 0
  /\ quadrant_pool_size = -1
  /\ data_pool_size = -1
  /\ init_calls = <<>>
  /\ failed = {}
  /\ args \in { [op |-> "pair", q1 |-> q1, q2 |-> q2] :
                  q1 \in ValidQuadrants, q2 \in ValidQuadrants }
  /\ ret = NoCall
  /\ ReaderIdle

\* p4est_quadrant_compare on args.q1, args.q2 and a third quadrant c
CallCompare ==
  /\ args.op = "pair" /\ ret.op = "none"
  /\ \E c \in ValidQuadrants :
       ret' = [op |-> "compare", c |-> c,
               ab |-> p4est_quadrant_compare(args.q1, args.q2),
               ba |-> p4est_quadrant_compare(args.q2, args.q1),
               bc |-> p4est_quadrant_compare(args.q2, c),
               ac |-> p4est_quadrant_compare(args.q1, c),
               aa |-> p4est_quadrant_compare(args.q1, args.q1),
               equal |-> p4est_quadrant_is_equal(args.q1, args.q2)]
  /\ UNCHANGED <<crvars, args, rdvars>>

\* p4est_quadrant_children on args.q1, then parent and child_id of child i
CallChildren ==
  /\ args.op = "pair" /\ ret.op = "none"
  /\ args.q1.level < P4EST_MAXLEVEL
  /\ \E i \in 0..3 :
       LET child == p4est_quadrant_children(args.q1)[i + 1]
       IN  ret' = [op |-> "children", i |-> i, child |-> child,
                   parent |-> p4est_quadrant_parent(child),
                   child_id |-> p4est_quadrant_child_id(child)]
  /\ UNCHANGED <<crvars, args, rdvars>>

\* p4est_quadrant_set_morton into the caller's quadrant args.q2, then
\* p4est_quadrant_linear_id of the result
CallSetMorton ==
  /\ args.op = "pair" /\ ret.op = "none"
  /\ \E level \in 0..P4EST_MAXLEVEL :
       \E id \in 0..(Pow2(2 * level) - 1) :
         LET q == p4est_quadrant_set_morton(args.q2, level, id)
         IN  ret' = [op |-> "set_morton", level |-> level, id |-> id, q |-> q,
                     linear_id |-> p4est_quadrant_linear_id(q, level)]
  /\ UNCHANGED <<crvars, args, rdvars>>

\* p4est_quadrant_linear_id of args.q1 at its own level, then
\* p4est_quadrant_set_morton of that id into args.q2
CallLinearId ==
  /\ args.op = "pair" /\ ret.op = "none"
  /\ LET id == p4est_quadrant_linear_id(args.q1, args.q1.level)
     IN  ret' = [op |-> "linear_id", id |-> id,
                 q |-> p4est_quadrant_set_morton(args.q2, args.q1.level, id)]
  /\ UNCHANGED <<crvars, args, rdvars>>

\* p4est_quadrant_is_ancestor and p4est_quadrant_is_ancestor_D on the pair
CallIsAncestor ==
  /\ args.op = "pair" /\ ret.op = "none"
  /\ LET d == p4est_quadrant_is_ancestor_D(args.q1, args.q2)
     IN  ret' = [op |-> "is_ancestor",
                 bitwise |-> p4est_quadrant_is_ancestor(args.q1, args.q2),
                 D |-> d.result, failed |-> d.failed]
  /\ UNCHANGED <<crvars, args, rdvars>>

\* p4est_quadrant_is_next and p4est_quadrant_is_next_D on the pair
CallIsNext ==
  /\ args.op = "pair" /\ ret.op = "none"
  /\ ret' = [op |-> "is_next",
             bitwise |-> p4est_quadrant_is_next(args.q1, args.q2),
             D |-> p4est_quadrant_is_next_D(args.q1, args.q2)]
  /\ UNCHANGED <<crvars, args, rdvars>>

\* p4est_nearest_common_ancestor on the pair, in both orders, and
\* p4est_nearest_common_ancestor_D on it
CallNearestCommonAncestor ==
  /\ args.op = "pair" /\ ret.op = "none"
  /\ LET d == p4est_nearest_common_ancestor_D(args.q1, args.q2)
     IN  ret' = [op |-> "nearest_common_ancestor",
                 r |-> p4est_nearest_common_ancestor(args.q1, args.q2),
                 swapped |-> p4est_nearest_common_ancestor(args.q2, args.q1),
                 D |-> d.r, failed |-> d.failed]
  /\ UNCHANGED <<crvars, args, rdvars>>

\* p4est_quadrant_compare on the pair, p4est_quadrant_linear_id of each at
\* its own level, and p4est_quadrant_is_ancestor on the pair
CallCompareLinearId ==
  /\ args.op = "pair" /\ ret.op = "none"
  /\ ret' = [op |-> "compare_linear_id",
             ab |-> p4est_quadrant_compare(args.q1, args.q2),
             id1 |-> p4est_quadrant_linear_id(args.q1, args.q1.level),
             id2 |-> p4est_quadrant_linear_id(args.q2, args.q2.level),
             ancestor |-> p4est_quadrant_is_ancestor(args.q1, args.q2)]
  /\ UNCHANGED <<crvars, args, rdvars>>

\* the trees p4est_tree_print is called on: the pair, in this order, alone
\* or followed by the first of the pair again or by a quadrant for which
\* is_next holds after the second
PrintedTrees ==
  { <<args.q1, args.q2>>, <<args.q1, args.q2, args.q1>> }
  \cup { <<args.q1, args.q2, c>> : c \in { d \in ValidQuadrants :
                                             p4est_quadrant_is_next(args.q2, d) } }

CallTreePrint ==
  /\ args.op = "pair" /\ ret.op = "none"
  /\ \E quadrants \in PrintedTrees : \E nout_is_null \in BOOLEAN :
       LET t == [EmptyTree EXCEPT !.quadrants = quadrants]
       IN  ret' = [op |-> "tree_print", quadrants |-> quadrants,
                   nout_is_null |-> nout_is_null,
                   out |-> p4est_tree_print(t, nout_is_null),
                   is_complete |-> p4est_tree_is_complete(t)]
  /\ UNCHANGED <<crvars, args, rdvars>>

NextQuadrant ==
  \/ CallCompare \/ CallChildren \/ CallSetMorton \/ CallLinearId
  \/ CallIsAncestor \/ CallIsNext \/ CallNearestCommonAncestor
  \/ CallCompareLinearId \/ CallTreePrint

SpecQuadrant == InitQuadrant /\ [][NextQuadrant]_vars

(***************************************************************************)
(* The mesh file reader and printer (p4est_file.c).  A line of text is     *)
(* kept as what it holds: nothing, a section header, key = value, or       *)
(* numbers; together with whether a comment follows and whether white      *)
(* space precedes.  Indices in a file are written as they stand there,     *)
(* 1-based.                                                                *)
(***************************************************************************)
MaxTrees == 1
MaxVertices == 2
MaxLines == 2

\* every line ends with the newline fgets leaves in buf (trail)
BlankLine(comment) ==
  [kind |-> "blank", comment |-> comment, indent |-> FALSE, trail |-> TRUE]
\* "[name]", or "[name" when closed is FALSE
SectionLine(name, closed) ==
  [kind |-> "section", name |-> name, closed |-> closed,
   comment |-> FALSE, indent |-> FALSE, trail |-> TRUE]
KeyValueLine(key, value, comment) ==
  [kind |-> "keyvalue", key |-> key, value |-> value,
   comment |-> comment, indent |-> FALSE, trail |-> TRUE]
\* the numbers n[1] .. n[5] separated by white space
NumbersLine(n, indent) ==
  [kind |-> "numbers", n |-> n, comment |-> FALSE, indent |-> indent, trail |-> TRUE]

p4est_trim_comments(line) == [line EXCEPT !.comment = FALSE]
p4est_trim_ending_whitespace(line) == [line EXCEPT !.trail = FALSE]
p4est_trim_beginning_whitespace(line) == [line EXCEPT !.indent = FALSE]

\* the section a header names, "unknown" if none
SectionOf(name) ==
  CASE name = "Forest Info" -> "INFO"
    [] name = "Coordinates of Element Vertices" -> "COORD"
    [] name = "Element to Vertex" -> "ETOV"
    [] name = "Element to Element" -> "ETOE"
    [] name = "Element to Face" -> "ETOF"
    [] name = "Element Tags" -> "ET"
    [] name = "Face Tags" -> "FT"
    [] name = "Curved Faces" -> "CF"
    [] name = "Curved Types" -> "CT"
    [] OTHER -> "unknown"

\* a connectivity for the given counts, its tables not written yet (-1)
p4est_connectivity_new(nt, nv) ==
  [is_null |-> FALSE, num_trees |-> nt, num_vertices |-> nv,
   tree_to_vertex |-> [i \in 1..(4 * nt) |-> -1],
   tree_to_tree |-> [i \in 1..(4 * nt) |-> -1],
   tree_to_face |-> [i \in 1..(4 * nt) |-> -1]]

\* P4EST_CHECK_ABORT (0, msg) on the locals s: the message is written and
\* the process ends
Abort(s, msg) == [s EXCEPT !.message = msg]

\* every section header is let through
SectionAllowed_any(sec, conn) == TRUE

\* the condition checked after a section header was recognised
SectionAllowed(sec, conn) == sec = "INFO" \/ ~conn.is_null

\* a line that starts with '['
ReadSection(s, line) ==
  IF s.section = "ETOV" /\ ~(s.section_lines_read = s.num_trees)
  THEN Abort(s, "Not enough entries in [Element to Vertex]")
  ELSE IF s.section = "ETOE" /\ ~(s.section_lines_read = s.num_trees)
  THEN Abort(s, "Not enough entries in [Element to Element]")
  ELSE IF s.section = "ETOF" /\ ~(s.section_lines_read = s.num_trees)
  THEN Abort(s, "Not enough entries in [Element to Face]")
  ELSE IF ~(line.closed /\ ~line.comment /\ ~line.trail)
  THEN Abort(s, "Sections must end with ']'")
  ELSE IF SectionOf(line.name) = "unknown"
  THEN Abort(s, "Unknown section in mesh file")
  ELSE LET s1 == [s EXCEPT !.section = SectionOf(line.name)]
       IN  IF ~SectionAllowed(s1.section, s1.connectivity)
           THEN Abort(s1, "The [Forest Info] setction must come first and set Nv and Nv.")
           ELSE [s1 EXCEPT !.section_lines_read = 0]

\* case INFO: strtok needs a key and a value around '='
ReadInfo(s, line) ==
  IF line.kind # "keyvalue"
  THEN Abort(s, "entries in the [Forest Info] setion must be key value pairs, i.e. key=value")
  ELSE LET s1 == IF line.key = "Nk"
                 THEN [s EXCEPT !.num_trees = line.value, !.set_num_trees = TRUE]
                 ELSE IF line.key = "Nv"
                 THEN [s EXCEPT !.num_vertices = line.value, !.set_num_vertices = TRUE]
                 ELSE s
       IN  IF s1.set_num_vertices /\ s1.set_num_trees
           THEN [s1 EXCEPT !.connectivity =
                             p4est_connectivity_new(s1.num_trees, s1.num_vertices)]
           ELSE s1

\* cases ETOV, ETOE, ETOF: n is what k and the four indices hold after
\* sscanf; they are decremented, checked against limit and stored in row k
\* of the table
ReadEntry(s, table, limit, n, msg) ==
  LET k == n[1] - 1
      i0 == n[2] - 1
      i1 == n[3] - 1
      i2 == n[4] - 1
      i3 == n[5] - 1
  IN  IF ~(/\ k >= 0 /\ k < s.num_trees
           /\ i0 >= 0 /\ i0 < limit /\ i1 >= 0 /\ i1 < limit
           /\ i2 >= 0 /\ i2 < limit /\ i3 >= 0 /\ i3 < limit)
      THEN Abort(s, msg)
      ELSE IF s.connectivity.is_null
      THEN [s EXCEPT !.message = "undefined: store through an unset table pointer"]
      ELSE [s EXCEPT !.connectivity[table] =
                       [@ EXCEPT ![k * 4 + 1] = i0, ![k * 4 + 2] = i1,
                                 ![k * 4 + 3] = i2, ![k * 4 + 4] = i3]]

\* a line that is neither empty nor a section header: the switch on the
\* section and the count of the line
ReadData(s, line, n) ==
  LET s1 == CASE s.section = "INFO" -> ReadInfo(s, line)
              [] s.section = "ETOV" ->
                   ReadEntry(s, "tree_to_vertex", s.num_vertices, n,
                             "Bad [Element to Vertex] entry")
              [] s.section = "ETOE" ->
                   ReadEntry(s, "tree_to_tree", s.num_trees, n,
                             "Bad [Element to Element] entry")
              [] s.section = "ETOF" ->
                   ReadEntry(s, "tree_to_face", 4, n,
                             "Bad [Element to Face] entry")
              [] s.section = "NONE" ->
                   Abort(s, "Mesh file must start with a section")
              [] OTHER -> s
  IN  IF s1.message # "" THEN s1
      ELSE [s1 EXCEPT !.section_lines_read = @ + 1]

\* the body of the loop over the lines on the line buf, from the locals s
\* to the locals after it
ReadBuf(s, buf, n) ==
  LET line == p4est_trim_beginning_whitespace(
                p4est_trim_ending_whitespace(p4est_trim_comments(buf)))
  IN  IF line.kind = "blank" /\ ~line.comment /\ ~line.indent /\ ~line.trail THEN s
      ELSE IF line.kind = "section" /\ ~line.indent THEN ReadSection(s, line)
      ELSE ReadData(s, line, n)

\* what sscanf leaves in k and the four indices: the numbers of the line,
\* and anything if the line holds no numbers (they are then not assigned)
NumberTuples ==
  { <<k, i, i, i, i>> : k \in 0..(MaxTrees + 1), i \in {0, 1, 5} }
Scanned(sec, buf) ==
  IF buf.kind = "numbers" THEN { buf.n }
  ELSE IF sec \in {"ETOV", "ETOE", "ETOF"} THEN NumberTuples
  ELSE { <<0, 0, 0, 0, 0>> }

\* the lines a file is made of
SectionNames ==
  { "Forest Info", "Coordinates of Element Vertices", "Element to Vertex",
    "Element to Element", "Element to Face", "Element Tags", "Face Tags",
    "Curved Faces", "Curved Types", "Other" }
Lines ==
  { BlankLine(c) : c \in BOOLEAN }
  \cup { SectionLine(name, closed) : name \in SectionNames, closed \in BOOLEAN }
  \cup { KeyValueLine("Nk", v, c) : v \in 0..MaxTrees, c \in BOOLEAN }
  \cup { KeyValueLine("Nv", v, c) : v \in 0..MaxVertices, c \in BOOLEAN }
  \cup { KeyValueLine("ver", 0, TRUE) }
  \cup { NumbersLine(n, i) : n \in NumberTuples, i \in BOOLEAN }

\* the rows of a table with the indices as they are stored
PrintRows_stored(conn, table) ==
  [j \in 1..conn.num_trees |->
     NumbersLine(<<j - 1, conn[table][4 * (j - 1) + 1], conn[table][4 * (j - 1) + 2],
                   conn[table][4 * (j - 1) + 3], conn[table][4 * (j - 1) + 4]>>, TRUE)]

\* the rows p4est_connectivity_print writes for a table: row j is for the
\* tree k = j - 1, every index is written as the stored value plus one
PrintRows(conn, table) ==
  [j \in 1..conn.num_trees |->
     NumbersLine(<<(j - 1) + 1,
                   conn[table][4 * (j - 1) + 1] + 1, conn[table][4 * (j - 1) + 2] + 1,
                   conn[table][4 * (j - 1) + 3] + 1, conn[table][4 * (j - 1) + 4] + 1>>,
                 TRUE)]

p4est_connectivity_print(conn) ==
  << SectionLine("Forest Info", TRUE),
     KeyValueLine("ver", 0, TRUE),
     KeyValueLine("Nk", conn.num_trees, TRUE),
     KeyValueLine("Nv", conn.num_vertices, TRUE),
     KeyValueLine("Net", 0, TRUE),
     KeyValueLine("Nft", 0, TRUE),
     KeyValueLine("Ncf", 0, TRUE),
     KeyValueLine("Nct", 0, TRUE),
     BlankLine(FALSE),
     SectionLine("Coordinates of Element Vertices", TRUE),
     SectionLine("Element to Vertex", TRUE) >>
  \o PrintRows(conn, "tree_to_vertex")
  \o << SectionLine("Element to Element", TRUE) >>
  \o PrintRows(conn, "tree_to_tree")
  \o << SectionLine("Element to Face", TRUE) >>
  \o PrintRows(conn, "tree_to_face")
  \o << SectionLine("Element Tags", TRUE), SectionLine("Face Tags", TRUE),
        SectionLine("Curved Faces", TRUE), SectionLine("Curved Types", TRUE) >>

\* the connectivities that are printed: every index in range (none is, for
\* a table with slots and the limit 0), every table zero but for at most
\* one slot
Tables(len, limit) ==
  IF len > 0 /\ limit = 0 THEN {}
  ELSE { [i \in 1..len |-> 0] }
       \cup { [i \in 1..len |-> IF i = j THEN v ELSE 0] :
                 j \in 1..len, v \in 0..(limit - 1) }
ConnectivitiesOf(nt, nv) ==
  { [is_null |-> FALSE, num_trees |-> nt, num_vertices |-> nv,
     tree_to_vertex |-> tv, tree_to_tree |-> tt, tree_to_face |-> tf] :
      tv \in Tables(4 * nt, nv), tt \in Tables(4 * nt, nt), tf \in Tables(4 * nt, 4) }
Connectivities ==
  UNION { ConnectivitiesOf(nt, nv) :
            nt \in 0..MaxTrees, nv \in 0..MaxVertices }

\* no call of p4est_complete_region and of the quadrant functions
RegionIdle ==
  /\ pc = "idle"
  /\ a = Quadrant(0, 0, 0)
  /\ b = Quadrant(0, 0, 0)
  /\ include_q1 = FALSE
  /\ include_q2 = FALSE
  /\ init_fn = FALSE
  /\ p4est = p4est_new(0, 0, 0)
  /\ tree = EmptyTree
  /\ W = <<>>
  /\ num_quadrants = 0
  /\ maxlevel = 0
  /\ quadrant_pool_size = -1
  /\ data_pool_size = -1
  /\ init_calls = <<>>
  /\ failed = {}
  /\ args = NoCall
  /\ ret = NoCall

\* the locals of p4est_connectivity_read and *connectivity as one record
Locals ==
  [section |-> section, section_lines_read |-> section_lines_read,
   set_num_trees |-> set_num_trees, set_num_vertices |-> set_num_vertices,
   num_trees |-> num_trees, num_vertices |-> num_vertices,
   connectivity |-> connectivity, message |-> message]

UndefinedStore == "undefined: store through an unset table pointer"

SetLocals(s) ==
  /\ section' = s.section
  /\ section_lines_read' = s.section_lines_read
  /\ set_num_trees' = s.set_num_trees
  /\ set_num_vertices' = s.set_num_vertices
  /\ num_trees' = s.num_trees
  /\ num_vertices' = s.num_vertices
  /\ connectivity' = s.connectivity
  /\ message' = s.message
  /\ rpc' = CASE s.message = "" -> "lines"
              [] s.message = UndefinedStore -> "undefined"
              [] OTHER -> "aborted"

\* one pass of the loop over the lines, on the line buf
ReadStep(buf) ==
  \E n \in Scanned(section, buf) : SetLocals(ReadBuf(Locals, buf, n))

\* what the caller's pointer may hold before the call
StalePointers == { NullConnectivity, p4est_connectivity_new(0, 0) }

\* p4est_connectivity_read on a file of any lines
InitRead ==
  /\ RegionIdle
  /\ rpc = "entry"
  /\ ReaderLocals
  /\ connectivity \in StalePointers
  /\ file = <<>>
  /\ printed = NullConnectivity

\* *connectivity = NULL and fopen
Fopen ==
  /\ rpc = "entry"
  /\ connectivity' = NullConnectivity
  /\ \E opened \in BOOLEAN :
       IF opened
       THEN rpc' = "lines" /\ UNCHANGED <<retval, message>>
       ELSE /\ rpc' = "returned"
            /\ retval' = 1
            /\ message' = "Failed to open p4est mesh file"
  /\ UNCHANGED <<crvars, args, ret, section, section_lines_read, set_num_trees,
                 set_num_vertices, num_trees, num_vertices, file, printed>>

\* fgets delivers a line, any line
ReadLine ==
  /\ rpc = "lines"
  /\ \E buf \in Lines :
       /\ ReadStep(buf)
       /\ section_lines_read' <= MaxLines
  /\ UNCHANGED <<crvars, args, ret, retval, file, printed>>

\* fgets delivers nothing more: fclose and return
Fclose ==
  /\ rpc = "lines"
  /\ file = <<>>
  /\ \E rc \in {0, -1} :
       IF rc # 0
       THEN retval' = 1 /\ message' = "Failed to close p4est mesh file"
       ELSE retval' = 0 /\ UNCHANGED message
  /\ rpc' = "returned"
  /\ UNCHANGED <<crvars, args, ret, section, section_lines_read, set_num_trees,
                 set_num_vertices, num_trees, num_vertices, connectivity,
                 file, printed>>

NextRead == Fopen \/ ReadLine \/ Fclose

SpecRead == InitRead /\ [][NextRead]_vars

\* p4est_connectivity_print of a connectivity into a file, then
\* p4est_connectivity_read of that file
InitPrintRead ==
  /\ RegionIdle
  /\ rpc = "print"
  /\ ReaderLocals
  /\ connectivity \in StalePointers
  /\ file = <<>>
  /\ printed \in Connectivities

\* stdout of p4est_connectivity_print becomes the file
WriteFile ==
  /\ rpc = "print"
  /\ file' = p4est_connectivity_print(printed)
  /\ rpc' = "entry"
  /\ UNCHANGED <<crvars, args, ret, section, section_lines_read, set_num_trees,
                 set_num_vertices, num_trees, num_vertices, connectivity,
                 retval, message, printed>>

\* fgets delivers the next line of the file
ReadPrinted ==
  /\ rpc = "lines"
  /\ file # <<>>
  /\ ReadStep(Head(file))
  /\ file' = Tail(file)
  /\ UNCHANGED <<crvars, args, ret, retval, printed>>

NextPrintRead == WriteFile \/ Fopen \/ ReadPrinted \/ Fclose

SpecPrintRead == InitPrintRead /\ [][NextPrintRead]_vars

(***************************************************************************)
(* Properties.                                                             *)
(***************************************************************************)
Bool(v) == IF v THEN 1 ELSE 0

\* the quadrants of R that were appended from the work list: R without q1
\* in front (if included) and without q2 at the end (if included)
FromWorkList ==
  LET lo == 1 + Bool(include_q1)
      hi == Len(tree.quadrants) - Bool(pc = "done" /\ include_q2)
  IN  IF lo > hi THEN <<>> ELSE SubSeq(tree.quadrants, lo, hi)

Overlap(p, q) ==
  \/ p4est_quadrant_is_equal(p, q)
  \/ p4est_quadrant_is_ancestor(p, q)
  \/ p4est_quadrant_is_ancestor(q, p)

\* the cells of the deepest level, by their coordinates, the cells a
\* quadrant covers, and the position of a cell on the Morton curve
Cells == (0..(Pow2(P4EST_MAXLEVEL) - 1)) \X (0..(Pow2(P4EST_MAXLEVEL) - 1))
Side(q) == Pow2(P4EST_MAXLEVEL - q.level)
Covers(q, c) ==
  /\ q.x <= c[1] /\ c[1] < q.x + Side(q)
  /\ q.y <= c[2] /\ c[2] < q.y + Side(q)
RECURSIVE Interleave(_, _)
Interleave(x, y) ==
  IF x = 0 /\ y = 0 THEN 0
  ELSE (x % 2) + 2 * (y % 2) + 4 * Interleave(x \div 2, y \div 2)
Morton(c) == Interleave(c[1], c[2])

\* the cells strictly between a and b: in neither, after every cell of a
\* and before every cell of b
Gap ==
  { c \in Cells :
      /\ ~Covers(a, c) /\ ~Covers(b, c)
      /\ \A c1 \in Cells : Covers(a, c1) => Morton(c1) < Morton(c)
      /\ \A c2 \in Cells : Covers(b, c2) => Morton(c) < Morton(c2) }

\* C1: when p4est_complete_region finishes, every adjacent pair of R
\* satisfies is_next (is_complete(R)), and the exit assertion on it holds.
C1_CompleteOnExit ==
  pc = "done" => p4est_tree_is_complete(tree) /\ "is_complete" \notin failed

\* C2: the quadrants appended from the work list exactly tile the gap
\* between q1 and q2: they do not overlap each other, q1 or q2, and every
\* cell of the gap lies in exactly one of them (and they cover nothing else).
C2_EmittedTileGap ==
  pc = "done" =>
    LET E == FromWorkList
    IN  /\ \A i, j \in DOMAIN E : i < j => ~Overlap(E[i], E[j])
        /\ \A i \in DOMAIN E : ~Overlap(E[i], a) /\ ~Overlap(E[i], b)
        /\ \A c \in Gap : Cardinality({ i \in DOMAIN E : Covers(E[i], c) }) = 1
        /\ \A i \in DOMAIN E : \A c \in Cells : Covers(E[i], c) => c \in Gap

\* C3: the quadrants appended from the work list are the largest possible:
\* the parent of each is an ancestor of q1 or of q2, and the four children
\* of one quadrant are never all appended.
C3_LargestPossible ==
  pc = "done" =>
    LET E == FromWorkList
    IN  \A i \in DOMAIN E :
          /\ E[i].level > 0
          /\ LET p == p4est_quadrant_parent(E[i])
             IN  /\ p4est_quadrant_is_ancestor(p, a) \/ p4est_quadrant_is_ancestor(p, b)
                 /\ ~(\A k \in 1..4 : \E j \in DOMAIN E :
                        p4est_quadrant_is_equal(E[j], p4est_quadrant_children(p)[k]))

\* a finished call that refined down to the deepest level and kept four or
\* more quadrants of the work list
C3_Witness ==
  /\ pc = "done"
  /\ ~p4est_quadrant_is_ancestor(a, b)
  /\ Len(FromWorkList) >= 4
  /\ \E i \in DOMAIN FromWorkList : FromWorkList[i].level = P4EST_MAXLEVEL

\* C4: after the call R is strictly increasing under compare, every element
\* lies between q1 and q2 (inclusive), q1 is the first element iff
\* include_q1, and q2 is the last element iff include_q2.
C4_SortedBetween ==
  pc = "done" =>
    LET R == tree.quadrants
    IN  /\ p4est_tree_is_sorted(tree)
        /\ \A i \in DOMAIN R :
             /\ p4est_quadrant_compare(a, R[i]) <= 0
             /\ p4est_quadrant_compare(R[i], b) <= 0
        /\ include_q1 <=> (Len(R) > 0 /\ p4est_quadrant_is_equal(R[1], a))
        /\ include_q2 <=> (Len(R) > 0 /\ p4est_quadrant_is_equal(R[Len(R)], b))

\* a finished call with both ends included and four or more between them
C4_Witness ==
  /\ pc = "done"
  /\ ~p4est_quadrant_is_ancestor(a, b)
  /\ include_q1 /\ include_q2
  /\ Len(tree.quadrants) >= 6

\* C5: at every iteration of the loop the live count of the quadrant pool
\* is its count at entry plus the length of W; when the call finishes W is
\* empty and the live count is the count at entry.
C5_PoolBalance ==
  /\ pc = "loop" =>
       p4est.quadrant_pool.elem_count = quadrant_pool_size + Len(W)
  /\ pc = "done" =>
       Len(W) = 0 /\ p4est.quadrant_pool.elem_count = quadrant_pool_size

\* inside the loop after a refinement, on a pool that was in use at entry
C5_Witness ==
  /\ pc = "loop"
  /\ ~p4est_quadrant_is_ancestor(a, b)
  /\ Len(W) >= 5
  /\ quadrant_pool_size > 0
  /\ Len(tree.quadrants) >= 2

\* C6: on a mesh with a user-data pool, at exit the pool's live count is
\* its count at entry plus len(R) - include_q1 - include_q2: user data is
\* allocated for exactly the quadrants appended from the work list, never
\* for q1 or q2, and the initializer (if any) ran once on each of them.
C6_DataPoolGrowth ==
  (pc = "done" /\ ~p4est.user_data_pool.is_null) =>
    LET R == tree.quadrants
        E == FromWorkList
    IN  /\ p4est.user_data_pool.elem_count
             = data_pool_size + Len(R) - Bool(include_q1) - Bool(include_q2)
        /\ p4est.user_data_pool.elem_count = data_pool_size + Len(E)
        /\ \A i \in DOMAIN E : E[i].user_data = "cell"
        /\ include_q1 => R[1].user_data = "caller"
        /\ include_q2 => R[Len(R)].user_data = "caller"
        /\ init_calls = IF init_fn THEN E ELSE <<>>

\* a finished call on a mesh with user data and an initializer
C6_Witness ==
  /\ pc = "done"
  /\ ~p4est_quadrant_is_ancestor(a, b)
  /\ ~p4est.user_data_pool.is_null
  /\ init_fn /\ include_q1 /\ include_q2
  /\ Len(FromWorkList) >= 3

\* the quadrants of the refinement tree below and including w, down to the
\* deepest level: what is left to visit under a quadrant of the work list
Weight(w) == (Pow2(2 * (P4EST_MAXLEVEL - w.level + 1)) - 1) \div 3
RECURSIVE SumWeights(_)
SumWeights(list) == IF Len(list) = 0 THEN 0 ELSE Weight(Head(list)) + SumWeights(Tail(list))
\* the steps the call can still take are bounded by this number
Variant ==
  IF pc = "entry" THEN 2 + Weight(Quadrant(0, 0, 0))
  ELSE IF pc = "loop" THEN 1 + SumWeights(W)
  ELSE 0

\* C7: the call terminates: every step lowers a non-negative bound on the
\* steps left, so the loop cannot run forever, and the call is done only
\* with W empty; each refinement replaces the popped quadrant by four
\* children of a strictly greater level; no quadrant deeper than
\* P4EST_MAXLEVEL is ever on W.
C7_Terminates ==
  /\ [](Variant >= 0 /\ (pc = "done" <=> Variant = 0) /\ (pc = "done" => Len(W) = 0))
  /\ [][Variant' < Variant]_vars
  /\ [][Refine =>
          /\ Len(W') = Len(W) + 3
          /\ \A k \in 1..4 : W'[k].level > W[1].level
          /\ SubSeq(W', 5, Len(W')) = Tail(W)]_vars
  /\ [](\A i \in DOMAIN W : W[i].level <= P4EST_MAXLEVEL)

\* inside the loop right after a refinement down to the deepest level
C7_Witness ==
  /\ pc = "loop"
  /\ ~p4est_quadrant_is_ancestor(a, b)
  /\ Len(W) >= 7
  /\ W[1].level = P4EST_MAXLEVEL
  /\ p4est_nearest_common_ancestor(a, b).level = 0

\* C8: p4est_quadrant_compare is a total order on valid quadrants: it is
\* antisymmetric (compare(a, b) = -compare(b, a)), it is 0 exactly on equal
\* quadrants (so compare(a, a) = 0), and it is transitive.
C8_CompareTotalOrder ==
  ret.op = "compare" =>
    /\ ret.ab = -ret.ba
    /\ (ret.ab = 0) <=> ret.equal
    /\ ret.aa = 0
    /\ (ret.ab < 0 /\ ret.bc < 0) => ret.ac < 0

\* three different quadrants in ascending order, the first two on one origin
C8_Witness ==
  /\ ret.op = "compare"
  /\ ret.ab < 0 /\ ret.bc < 0 /\ ret.ac < 0
  /\ args.q1.x = args.q2.x /\ args.q1.y = args.q2.y

\* C9: for a valid q below the deepest level, child i of
\* p4est_quadrant_children(q) is valid, its parent is q and its child id is i.
C9_ChildrenParentChildId ==
  ret.op = "children" =>
    /\ p4est_quadrant_is_valid(ret.child)
    /\ p4est_quadrant_is_equal(ret.parent, args.q1)
    /\ ret.child_id = ret.i

\* the last child of a quadrant that is not the root
C9_Witness ==
  /\ ret.op = "children"
  /\ ret.i = 3
  /\ args.q1.level > 0
  /\ ret.child_id = 3

\* C10: Morton round trip.  set_morton(level, id) is a valid quadrant of that
\* level whose linear id is id; and set_morton of the linear id of a valid
\* quadrant q at q's level gives back q's x, y and level.
C10_MortonRoundTrip ==
  /\ ret.op = "set_morton" =>
       /\ p4est_quadrant_is_valid(ret.q)
       /\ ret.q.level = ret.level
       /\ ret.linear_id = ret.id
  /\ ret.op = "linear_id" =>
       /\ ret.id >= 0 /\ ret.id < Pow2(2 * args.q1.level)
       /\ p4est_quadrant_is_equal(ret.q, args.q1)

\* the largest id of the deepest level
C10_Witness ==
  /\ ret.op = "set_morton"
  /\ ret.level = P4EST_MAXLEVEL
  /\ ret.id = Pow2(2 * P4EST_MAXLEVEL) - 1
  /\ ret.linear_id = ret.id

\* C11: on every pair of valid quadrants, equal quadrants and the root
\* included, the bitwise p4est_quadrant_is_ancestor and the iterated-parent
\* p4est_quadrant_is_ancestor_D return the same truth value, and the latter
\* never reaches p4est_quadrant_parent with a quadrant of level 0.
C11_IsAncestorAgrees ==
  ret.op = "is_ancestor" => ret.bitwise = ret.D /\ ret.failed = {}

\* the root asked about a quadrant of the deepest level: both say yes
C11_Witness ==
  /\ ret.op = "is_ancestor" /\ ret.D /\ ret.bitwise
  /\ args.q1.level = 0 /\ args.q2.level = P4EST_MAXLEVEL

\* the first and the last cell of a quadrant on the Morton curve
FirstCell(q) == Morton(<<q.x, q.y>>)
LastCell(q) == Morton(<<q.x + Side(q) - 1, q.y + Side(q) - 1>>)

\* C12: if p4est_quadrant_is_next(a, b) holds then a and b do not overlap
\* and the first deepest-level cell of b comes immediately after the last
\* deepest-level cell of a on the Morton curve (no gap).
C12_IsNextNoGapNoOverlap ==
  ret.op = "is_next" /\ ret.bitwise =>
    /\ ~Overlap(args.q1, args.q2)
    /\ FirstCell(args.q2) = LastCell(args.q1) + 1

\* the two quadrants of the nearest-common-ancestor example, a quarter of
\* the domain apart: (2^28, 0, 2) and (0, 2^28, 2) at the depth 30
C13_Case ==
  /\ ret.op = "nearest_common_ancestor"
  /\ args.q1 = Quadrant(Pow2(P4EST_MAXLEVEL - 2), 0, 2)
  /\ args.q2 = Quadrant(0, Pow2(P4EST_MAXLEVEL - 2), 2)

\* C13 as stated: p4est_nearest_common_ancestor of the two quadrants is the
\* root (0, 0, level 0).
C13_ExampleIsRoot ==
  C13_Case => ret.r.x = 0 /\ ret.r.y = 0 /\ ret.r.level = 0

\* C13: p4est_nearest_common_ancestor of the quadrants (2^(L-2), 0, 2) and
\* (0, 2^(L-2), 2), L the maximum level, is the level-1 quadrant at the
\* origin (0, 0, level 1), their common parent.
C13_ExampleIsParent ==
  C13_Case => /\ ret.r.x = 0 /\ ret.r.y = 0 /\ ret.r.level = 1
              /\ p4est_quadrant_is_equal(ret.r, p4est_quadrant_parent(args.q1))
              /\ p4est_quadrant_is_equal(ret.r, p4est_quadrant_parent(args.q2))

C13_Witness == C13_Case /\ ret.r.level = 1

\* C18: on every pair of valid quadrants, of any levels, the bitwise
\* p4est_quadrant_is_next and the iterated-parent p4est_quadrant_is_next_D
\* return the same truth value.
C18_IsNextAgrees ==
  ret.op = "is_next" => ret.bitwise = ret.D

\* q deeper than r and the last descendant of the quadrant before r: the
\* climb passes the child-id test at least once and both say yes
C18_Witness ==
  /\ ret.op = "is_next" /\ ret.D /\ ret.bitwise
  /\ args.q1.level > args.q2.level

\* p is q or an ancestor of q, told from the cells they cover
Contains(p, q) == p.level <= q.level /\ Covers(p, <<q.x, q.y>>)

\* C19: on every pair of valid quadrants a, b the bitwise
\* p4est_nearest_common_ancestor gives a valid quadrant with the x, y and
\* level of p4est_nearest_common_ancestor_D: it contains a and b, no deeper
\* valid quadrant contains both, it is a when a contains b, and the
\* arguments in the other order give the same quadrant.
C19_NearestCommonAncestor ==
  ret.op = "nearest_common_ancestor" =>
    /\ p4est_quadrant_is_valid(ret.r)
    /\ ret.r.x = ret.D.x /\ ret.r.y = ret.D.y /\ ret.r.level = ret.D.level
    /\ Contains(ret.r, args.q1) /\ Contains(ret.r, args.q2)
    /\ \A c \in ValidQuadrants :
         Contains(c, args.q1) /\ Contains(c, args.q2) => c.level <= ret.r.level
    /\ (Contains(args.q1, args.q2) => p4est_quadrant_is_equal(ret.r, args.q1))
    /\ ret.swapped = ret.r

\* two quadrants, neither in the other, below a common ancestor that is
\* not the root and not at the origin
C19_Witness ==
  /\ ret.op = "nearest_common_ancestor"
  /\ ~Contains(args.q1, args.q2) /\ ~Contains(args.q2, args.q1)
  /\ ret.r.level > 0 /\ ret.r.x > 0

\* the completion example: q1 the first and q2 the last quadrant of level 2,
\* both included: (0, 0, 2) and (3 * 2^28, 3 * 2^28, 2) at the depth 30
C14_Case ==
  /\ pc = "done"
  /\ a = Quadrant(0, 0, 2)
  /\ b = Quadrant(3 * Pow2(P4EST_MAXLEVEL - 2), 3 * Pow2(P4EST_MAXLEVEL - 2), 2)
  /\ include_q1 /\ include_q2

\* the levels of the quadrants of R, in order
Levels == [i \in DOMAIN tree.quadrants |-> tree.quadrants[i].level]

\* C14 as stated: p4est_complete_region on the example leaves R with
\* exactly 4 quadrants.
C14_ExampleHasFour ==
  C14_Case => Len(tree.quadrants) = 4

\* C14: p4est_complete_region on the example leaves R with exactly 10
\* quadrants: q1, its three siblings, the two level-1 quadrants in the
\* middle, the three siblings of q2, then q2.
C14_ExampleHasTen ==
  C14_Case =>
    /\ Len(tree.quadrants) = 10
    /\ Levels = <<2, 2, 2, 2, 1, 1, 2, 2, 2, 2>>
    /\ p4est_quadrant_is_equal(tree.quadrants[1], a)
    /\ p4est_quadrant_is_equal(tree.quadrants[10], b)
    /\ \A i \in 2..4 : p4est_quadrant_is_equal(p4est_quadrant_parent(tree.quadrants[i]),
                                               p4est_quadrant_parent(a))
    /\ \A i \in 7..9 : p4est_quadrant_is_equal(p4est_quadrant_parent(tree.quadrants[i]),
                                               p4est_quadrant_parent(b))
    /\ p4est_tree_is_sorted(tree)

C14_Witness == C14_Case /\ num_quadrants = 10

\* the number of quadrants of R on level l, and the deepest level in R
LevelCount(l) == Cardinality({ i \in DOMAIN tree.quadrants : tree.quadrants[i].level = l })
DeepestLevel ==
  IF tree.quadrants = <<>> THEN 0
  ELSE CHOOSE m \in 0..P4EST_MAXLEVEL :
         /\ \E i \in DOMAIN tree.quadrants : tree.quadrants[i].level = m
         /\ \A i \in DOMAIN tree.quadrants : tree.quadrants[i].level <= m

\* C20: throughout p4est_complete_region the local num_quadrants is the
\* length of the array of R; when it has finished, quadrants_per_level[l]
\* has grown, from its value on entry, by the number of quadrants of R on
\* level l, and R.maxlevel is the deepest level in R (0 if R is empty).
C20_TreeBookkeeping ==
  /\ num_quadrants = Len(tree.quadrants)
  /\ pc = "done" =>
       /\ \A l \in 0..P4EST_MAXLEVEL :
            tree.quadrants_per_level[l] = EmptyTree.quadrants_per_level[l] + LevelCount(l)
       /\ tree.maxlevel = DeepestLevel

\* a finished call that left quadrants of two levels in R
C20_Witness ==
  /\ pc = "done" /\ ~p4est_quadrant_is_ancestor(a, b)
  /\ Len(tree.quadrants) >= 3
  /\ tree.quadrants_per_level[1] >= 1
  /\ tree.quadrants_per_level[P4EST_MAXLEVEL] >= 2
  /\ tree.maxlevel = P4EST_MAXLEVEL

\* C15: whenever p4est_connectivity_read returns nonzero, the caller's
\* pointer *connectivity is NULL.
C15_NullOnFailure ==
  rpc = "returned" /\ retval # 0 => connectivity.is_null

\* C16: a section header other than [Forest Info] is accepted only when Nk
\* and Nv were both set and the connectivity exists, otherwise the reader
\* aborts; a line of data before any section header aborts; so the reader
\* is in a per-element section, and processes its entries, only with Nk and
\* Nv set, and never stores through a table pointer that was not set.
C16_SectionOrder ==
  /\ [](rpc \in {"lines", "returned"} /\ section \notin {"NONE", "INFO"}
          => set_num_trees /\ set_num_vertices /\ ~connectivity.is_null)
  /\ [](rpc # "undefined")
  /\ [][\A buf \in Lines :
          /\ rpc = "lines"
          /\ buf.kind = "section" /\ SectionOf(buf.name) # "INFO"
          /\ ~(set_num_trees /\ set_num_vertices /\ ~connectivity.is_null)
          /\ ReadStep(buf)
          => rpc' = "aborted"]_vars
  /\ [][\A buf \in Lines :
          /\ rpc = "lines"
          /\ buf.kind \in {"keyvalue", "numbers"} /\ section = "NONE"
          /\ ReadStep(buf)
          => rpc' = "aborted" /\ message' = "Mesh file must start with a section"]_vars

\* Nk was set, Nv was not, and the header of another section ended the run
C16_Witness ==
  /\ rpc = "aborted"
  /\ message = "The [Forest Info] setction must come first and set Nv and Nv."
  /\ set_num_trees /\ ~set_num_vertices
  /\ section \in {"ETOV", "ETOE", "ETOF"}

\* C17: the file printed for a connectivity whose indices are all in range
\* is read without an abort; the read returns 0 unless fopen or fclose
\* fails, and then hands back a connectivity with the Nk, the Nv and the
\* three tables of the printed one.
C17_PrintReadRoundTrip ==
  /\ rpc \notin {"aborted", "undefined"}
  /\ rpc = "returned" =>
       /\ retval = 0 <=> message = ""
       /\ retval = 0 =>
            /\ ~connectivity.is_null
            /\ connectivity.num_trees = printed.num_trees
            /\ connectivity.num_vertices = printed.num_vertices
            /\ connectivity.tree_to_vertex = printed.tree_to_vertex
            /\ connectivity.tree_to_tree = printed.tree_to_tree
            /\ connectivity.tree_to_face = printed.tree_to_face

\* a file with a tree whose tables hold indices other than 0 was read back
C17_Witness ==
  /\ rpc = "returned" /\ retval = 0
  /\ printed.num_trees = MaxTrees
  /\ printed.tree_to_face[3] = 3
  /\ printed.tree_to_vertex[4 * MaxTrees] = 1

\* the quadrant appended to R from the work list most recently, if any
LastFromWorkList == FromWorkList[Len(FromWorkList)]

\* C21: in every iteration of the loop of p4est_complete_region the
\* quadrants on W are, front to back, strictly increasing under compare and
\* do not overlap one another, and each compares greater than the quadrant
\* appended to R from the work list most recently; an iteration that
\* makes W longer (a refinement) puts the children c0, c1, c2, c3 of the
\* front, in this order, in front of the rest of W, and every other
\* iteration takes the front of W away, so the children are popped in
\* ascending child id before anything that was on W already.
C21_WorkListOrdered ==
  /\ [](pc = "loop" =>
          /\ \A i \in 1..(Len(W) - 1) : p4est_quadrant_compare(W[i], W[i + 1]) < 0
          /\ \A i \in DOMAIN W : \A j \in DOMAIN W : i < j => ~Overlap(W[i], W[j])
          /\ FromWorkList # <<>> =>
               \A i \in DOMAIN W : p4est_quadrant_compare(LastFromWorkList, W[i]) < 0)
  /\ [][pc = "loop" /\ pc' = "loop" =>
          IF Len(W') > Len(W)
          THEN /\ \A k \in 1..4 :
                    /\ p4est_quadrant_is_equal(p4est_quadrant_parent(W'[k]), W[1])
                    /\ p4est_quadrant_child_id(W'[k]) = k - 1
               /\ SubSeq(W', 5, Len(W')) = Tail(W)
          ELSE W' = Tail(W)]_vars

\* in the loop after an append from the work list, with children of a
\* refined quadrant in front of quadrants that were on W before them
C21_Witness ==
  /\ pc = "loop" /\ ~p4est_quadrant_is_ancestor(a, b)
  /\ FromWorkList # <<>>
  /\ Len(W) >= 4
  /\ W[1].level > W[Len(W)].level

\* C22: p4est_quadrant_compare agrees with the Morton id: for valid a, b of
\* one level L, compare(a, b) < 0 exactly when linear_id(a, L) <
\* linear_id(b, L); and whenever a is an ancestor of d, compare(a, d) < 0.
C22_CompareAgreesWithMorton ==
  ret.op = "compare_linear_id" =>
    /\ args.q1.level = args.q2.level => (ret.ab < 0 <=> ret.id1 < ret.id2)
    /\ ret.ancestor => ret.ab < 0

\* two quadrants of one level that differ in x and in y at the same bit,
\* the first with the greater x and the smaller Morton id
C22_Witness ==
  /\ ret.op = "compare_linear_id"
  /\ args.q1.level = args.q2.level
  /\ args.q1.x > args.q2.x /\ args.q1.y < args.q2.y
  /\ ret.id1 < ret.id2 /\ ret.ab < 0

\* C23: in p4est_complete_region, for every valid q1 < q2, the nearest
\* common ancestor and every quadrant taken for refinement are above the
\* deepest level, so the assertions of p4est_quadrant_children never fail,
\* and every quadrant on W and every quadrant in R is valid.
C23_ChildrenPreconditionAndValidity ==
  /\ "children" \notin failed
  /\ p4est_nearest_common_ancestor(a, b).level < P4EST_MAXLEVEL
  /\ p4est_quadrant_is_valid(p4est_nearest_common_ancestor(a, b))
  /\ pc = "loop" /\ Len(W) > 0 /\ ~IsBetween(W[1]) /\ IsAncestorOfEnd(W[1])
       => W[1].level < P4EST_MAXLEVEL
  /\ \A i \in DOMAIN W : p4est_quadrant_is_valid(W[i])
  /\ \A i \in DOMAIN tree.quadrants : p4est_quadrant_is_valid(tree.quadrants[i])

\* a finished call that refined down to the deepest level: quadrants of
\* that level came from p4est_quadrant_children and went into R
C23_Witness ==
  /\ pc = "done" /\ ~p4est_quadrant_is_ancestor(a, b)
  /\ ~include_q1 /\ ~include_q2
  /\ \E i \in DOMAIN tree.quadrants : tree.quadrants[i].level = P4EST_MAXLEVEL
  /\ p4est_nearest_common_ancestor(a, b).level = P4EST_MAXLEVEL - 2

\* C24: if p4est_connectivity_read returns 0, every [Element to Vertex],
\* [Element to Element] and [Element to Face] section of the file held
\* exactly Nk data lines; stated here for the section the file ends in, of
\* which section_lines_read still holds the count when the call returns.
C24_LastSectionComplete ==
  rpc = "returned" /\ retval = 0 /\ section \in {"ETOV", "ETOE", "ETOF"}
    => section_lines_read = num_trees

\* the relation of q to its predecessor p by the first match of: out of
\* order, identical, siblings, p the parent of q, p an ancestor of q, q next
\* after p, none of these; siblings and parent told by p4est_quadrant_parent
ExpectedLetter(p, q) ==
  LET comp == p4est_quadrant_compare(p, q)
  IN  IF comp > 0 THEN "R"
      ELSE IF comp = 0 THEN "I"
      ELSE IF /\ p.level > 0 /\ q.level > 0
              /\ p4est_quadrant_is_equal(p4est_quadrant_parent(p), p4est_quadrant_parent(q))
           THEN "S"
      ELSE IF q.level > 0 /\ p4est_quadrant_is_equal(p4est_quadrant_parent(q), p) THEN "C"
      ELSE IF Contains(p, q) THEN "D"
      ELSE IF p4est_quadrant_is_next(p, q) THEN "N"
      ELSE "Q"

\* C25: p4est_tree_print writes one line with exactly one relation code for
\* each quadrant: Q<k> for the first, and for every other the first that
\* applies of R, I, S<k>, C<k>, D, N<k>, Q<k>, with k the child id of the
\* quadrant of the line; so for a tree on which is_complete holds every
\* quadrant after the first gets S<k> or N<k>.
C25_TreePrintCodes ==
  ret.op = "tree_print" /\ ~ret.nout_is_null =>
    /\ Len(ret.out) = Len(ret.quadrants)
    /\ \A j \in DOMAIN ret.out :
         LET q == ret.quadrants[j]
             code == ret.out[j].codes[1]
             letter == IF j = 1 THEN "Q" ELSE ExpectedLetter(ret.quadrants[j - 1], q)
         IN  /\ Len(ret.out[j].codes) = 1
             /\ ret.out[j].x = q.x /\ ret.out[j].y = q.y /\ ret.out[j].level = q.level
             /\ code = IF letter \in {"R", "I", "D"} THEN [letter |-> letter]
                       ELSE [letter |-> letter, k |-> p4est_quadrant_child_id(q)]
             /\ ret.is_complete /\ j > 1 => code.letter \in {"S", "N"}

\* a complete tree of three quadrants printed with both S and N on its lines
C25_Witness ==
  /\ ret.op = "tree_print" /\ ~ret.nout_is_null /\ ret.is_complete
  /\ Len(ret.out) = 3
  /\ ret.out[2].codes[1].letter = "S"
  /\ ret.out[3].codes[1].letter = "N"

====
